---- MODULE Spec2Model ----
(***************************************************************************)
(* A model of dot, the dbt command wrapper (src/src/dot).                  *)
(*                                                                         *)
(*   dot.py      dbt_command: _load_vars_yml, _resolve_context,            *)
(*               _filter_allowed_args, _dbt_command                        *)
(*   git.py      create_worktree, resolve_git_ref                          *)
(*   cli.py      parse_args, enforce_dot_gitignore, app                    *)
(*   profiles.py write_isolated_profiles_yml                               *)
(*                                                                         *)
(* Python values are records [ty, s, d]: ty is the Python type, s the      *)
(* text str() gives for a scalar, d the mapping of a dict.  A dict is a    *)
(* function from its keys (strings) to such values.  The order of a        *)
(* dict's keys is not part of the model: where the code iterates a dict    *)
(* the model walks its keys in the fixed order KeyOrder.                   *)
(***************************************************************************)
EXTENDS Integers, Sequences, FiniteSets, TLC

VARIABLES
    vars_yml,   \* the vars.yml file: [exists, vars, context]
    call,       \* the arguments of a dbt_command call
    out,        \* what the call did: [status, err, name, merged, filtered, command]
    repo,       \* the git repository and the .dot directory on disk
    gitlog,     \* the create_worktree calls made so far, each with its result
    cli,        \* one invocation of the command line (cli.app)
    profiles    \* one write_isolated_profiles_yml call: its files and its outcome

vars == <<vars_yml, call, out, repo, gitlog, cli, profiles>>

---------------------------------------------------------------------------
(* Python values *)

EmptyDict == <<>>

PyNone == [ty |-> "none", s |-> "None", d |-> EmptyDict]
PyStr(t) == [ty |-> "str", s |-> t, d |-> EmptyDict]
PyBool(b) == [ty |-> "bool", s |-> IF b THEN "True" ELSE "False", d |-> EmptyDict]
PyInt(n) == [ty |-> "int", s |-> ToString(n), d |-> EmptyDict]
PyDict(m) == [ty |-> "dict", s |-> "", d |-> m]

\* bool(v) for the values the model uses
Truthy(v) ==
    CASE v.ty = "none" -> FALSE
      [] v.ty = "str" -> v.s # ""
      [] v.ty = "bool" -> v.s = "True"
      [] v.ty = "int" -> v.s # "0"
      [] OTHER -> DOMAIN v.d # {}

\* dict.get(key, default)
Get(m, key, default) == IF key \in DOMAIN m THEN m[key] ELSE default

\* a.update(b) for two dicts: the keys of b overwrite, whole value by whole value
Update(a, b) ==
    [k \in DOMAIN a \cup DOMAIN b |-> IF k \in DOMAIN b THEN b[k] ELSE a[k]]

\* the dict m without key
Pop(m, key) == [k \in DOMAIN m \ {key} |-> m[k]]

\* the order in which the model walks the keys of a dict
KeyOrder ==
    <<"target", "select", "exclude", "selector", "resource-type", "inline",
      "args", "defer", "threads", "bogus", "flag", "must_set", "vars">>

RECURSIVE KeysFrom(_, _)
KeysFrom(m, i) ==
    IF i > Len(KeyOrder) THEN <<>>
    ELSE (IF KeyOrder[i] \in DOMAIN m THEN <<KeyOrder[i]>> ELSE <<>>)
         \o KeysFrom(m, i + 1)

\* list(m.keys())
Keys(m) == KeysFrom(m, 1)

\* json.dumps of a scalar
JsonScalar(v) ==
    CASE v.ty = "none" -> "null"
      [] v.ty = "bool" -> (IF v.s = "True" THEN "true" ELSE "false")
      [] v.ty = "int" -> v.s
      [] OTHER -> "\"" \o v.s \o "\""

RECURSIVE JsonItems(_, _)
JsonItems(m, ks) ==
    IF ks = <<>> THEN ""
    ELSE "\"" \o Head(ks) \o "\": " \o JsonScalar(m[Head(ks)])
         \o (IF Tail(ks) = <<>> THEN "" ELSE ", ")
         \o JsonItems(m, Tail(ks))

\* json.dumps of a dict of scalars
JsonDumps(m) == "{" \o JsonItems(m, Keys(m)) \o "}"

---------------------------------------------------------------------------
(* dot.py *)

\* "--name" as the table spells an argument
Flag(name) == [dashes |-> "--", name |-> name]

\* a.lstrip('-')
LStripDashes(a) == a.name

DbtCommands ==
    {"build", "clean", "clone", "compile", "debug", "deps", "docs", "init",
     "list", "parse", "retry", "run", "run-operation", "seed", "show",
     "snapshot", "source", "test"}

Selecting == {Flag("select"), Flag("exclude"), Flag("selector")}
Common == {Flag("vars"), Flag("target")}

DBT_COMMAND_ARGS ==
    [c \in DbtCommands |->
        CASE c = "build" -> Selecting \cup {Flag("resource-type"), Flag("defer")} \cup Common
          [] c = "compile" -> Selecting \cup {Flag("inline")} \cup Common
          [] c \in {"docs", "seed", "snapshot"} -> Selecting \cup Common
          [] c = "list" -> Selecting \cup {Flag("resource-type")} \cup Common
          [] c \in {"run", "test"} -> Selecting \cup {Flag("defer")} \cup Common
          [] c = "run-operation" -> {Flag("args")} \cup Common
          [] c = "show" -> {Flag("select")} \cup Common
          [] OTHER -> Common]

\* DBT_COMMAND_ARGS.get(name, [])
AllowedFlags(dbt_command_name) ==
    IF dbt_command_name \in DOMAIN DBT_COMMAND_ARGS
    THEN DBT_COMMAND_ARGS[dbt_command_name] ELSE {}

FilterAll(dbt_command_name, context) == context

_filter_allowed_args(dbt_command_name, context) ==
    LET allowed == {LStripDashes(a) : a \in AllowedFlags(dbt_command_name)}
    IN  [k \in {k \in DOMAIN context : k \in allowed} |-> context[k]]

\* the result of a step that raised
Raised(exc, kind, name, msg) ==
    [ok |-> FALSE, exc |-> exc, kind |-> kind, name |-> name, msg |-> msg]

NoError == [ok |-> TRUE, exc |-> "", kind |-> "", name |-> "", msg |-> ""]

\* _load_vars_yml: the file must exist; its 'vars' and 'context' keys are read
_load_vars_yml(file) ==
    IF ~file.exists
    THEN [err |-> Raised("FileNotFoundError", "no_file", "", "vars.yml not found at: vars.yml"),
          config_vars |-> EmptyDict, config_context |-> EmptyDict]
    ELSE [err |-> NoError, config_vars |-> file.vars, config_context |-> file.context]

ResolveNoDefault(config_context, active_context) ==
    LET missing == Truthy(active_context)
                   /\ (DOMAIN config_context = {} \/ active_context.s \notin DOMAIN config_context)
    IN  IF missing
        THEN [err |-> Raised("ValueError", "not_found", active_context.s,
                             "Context '" \o active_context.s \o "' not found in vars.yml."),
              name |-> active_context, merged |-> EmptyDict]
        ELSE [err |-> NoError, name |-> active_context,
              merged |-> Update(Get(config_context, "all", PyDict(EmptyDict)).d,
                                IF active_context.ty = "str"
                                THEN Get(config_context, active_context.s, PyDict(EmptyDict)).d
                                ELSE EmptyDict)]

ResolveNoLookup(config_context, active_context) ==
    LET name == IF active_context.ty = "none"
                THEN Get(config_context, "default", PyNone) ELSE active_context
    IN  [err |-> NoError, name |-> name,
         merged |-> Update(Get(config_context, "all", PyDict(EmptyDict)).d,
                           IF name.ty = "str"
                           THEN Get(config_context, name.s, PyDict(EmptyDict)).d
                           ELSE EmptyDict)]

\* _resolve_context: the name is the requested one or the 'default' key's value;
\* a truthy name that is no key of the mapping raises; 'all' is updated with the
\* selected context.  Updating with a non-empty string raises ValueError (each
\* of its characters is taken for a key/value pair).
_resolve_context(config_context, active_context) ==
    LET default_context_name == Get(config_context, "default", PyNone)
        name == IF active_context.ty = "none" THEN default_context_name ELSE active_context
        missing == Truthy(name)
                   /\ (DOMAIN config_context = {} \/ name.s \notin DOMAIN config_context)
        context_all == Get(config_context, "all", PyDict(EmptyDict))
        context_selected ==
            IF name.ty = "str" THEN Get(config_context, name.s, PyDict(EmptyDict))
            ELSE PyDict(EmptyDict)
    IN  IF missing
        THEN [err |-> Raised("ValueError", "not_found", name.s,
                             "Context '" \o name.s \o "' not found in vars.yml."),
              name |-> name, merged |-> EmptyDict]
        ELSE IF context_selected.ty = "str" /\ context_selected.s # ""
        THEN [err |-> Raised("ValueError", "update_sequence", "",
                             "dictionary update sequence element #0 has length 1; 2 is required"),
              name |-> name, merged |-> EmptyDict]
        ELSE [err |-> NoError, name |-> name,
              merged |-> Update(context_all.d, context_selected.d)]

RECURSIVE ArgTokens(_, _)
ArgTokens(m, ks) ==
    IF ks = <<>> THEN <<>>
    ELSE LET k == Head(ks)
             v == m[k]
             here == IF v.ty = "bool"
                     THEN (IF v.s = "True" THEN <<"--" \o k>> ELSE <<>>)
                     ELSE IF v.ty # "none" /\ ~(v.ty = "str" /\ v.s = "")
                     THEN <<"--" \o k, v.s>>
                     ELSE <<>>
         IN  here \o ArgTokens(m, Tail(ks))

\* _dbt_command: 'dbt', the subcommand, --vars=<json> when vars is not empty,
\* then the filtered context's arguments, then the passthrough arguments
_dbt_command(dbt_command_name, context, passthrough_args) ==
    LET filtered_context == _filter_allowed_args(dbt_command_name, context)
        vars_ == Get(filtered_context, "vars", PyDict(EmptyDict)).d
        rest == Pop(filtered_context, "vars")
    IN  <<"dbt", dbt_command_name>>
        \o (IF Cardinality(DOMAIN vars_) > 0 THEN <<"--vars=" \o JsonDumps(vars_)>> ELSE <<>>)
        \o ArgTokens(rest, Keys(rest))
        \o passthrough_args

\* dbt_command: load, resolve, build; the first exception ends it
dbt_command(dbt_command_name, file, active_context, passthrough_args) ==
    LET loaded == _load_vars_yml(file)
        resolved == _resolve_context(loaded.config_context, active_context)
    IN  IF ~loaded.err.ok
        THEN [status |-> "error", err |-> loaded.err, name |-> active_context,
              merged |-> EmptyDict, filtered |-> EmptyDict, command |-> <<>>]
        ELSE IF ~resolved.err.ok
        THEN [status |-> "error", err |-> resolved.err, name |-> resolved.name,
              merged |-> EmptyDict, filtered |-> EmptyDict, command |-> <<>>]
        ELSE [status |-> "ok", err |-> NoError, name |-> resolved.name,
              merged |-> resolved.merged,
              filtered |-> _filter_allowed_args(dbt_command_name, resolved.merged),
              command |-> _dbt_command(dbt_command_name, resolved.merged, passthrough_args)]

\* the resolved environment's arguments: the merged context without 'vars'
EnvArgs(merged) == Pop(merged, "vars")

\* the resolved environment's variables: filtered_context.get("vars", {})
EnvVars(merged) == Get(merged, "vars", PyDict(EmptyDict)).d

---------------------------------------------------------------------------
(* The inputs of a dbt_command call *)

Entry(key, value) == key :> value

\* every dict made of at most one entry from each of the sets of entries
OneOf(options) == {EmptyDict} \cup options

TargetOptions == OneOf({Entry("target", PyStr("dev")), Entry("target", PyStr("dev_override"))})

VarsMaps ==
    {f @@ m : f \in OneOf({Entry("flag", PyBool(TRUE)), Entry("flag", PyBool(FALSE))}),
              m \in OneOf({Entry("must_set", PyInt(42))})}
    \cup {Entry("must_set", PyNone)}

VarsOptions == OneOf({Entry("vars", PyDict(m)) : m \in VarsMaps})

\* the contexts of the resolution cases: a target and a vars mapping, each optional
Contexts == {t @@ v : t \in TargetOptions, v \in VarsOptions}

\* the contexts of the filtering cases: allowed, subcommand-dependent and unknown keys
FilterContexts ==
    {t @@ s @@ df @@ b @@ v :
        t \in OneOf({Entry("target", PyStr("dev"))}),
        s \in OneOf({Entry("select", PyStr("my_model"))}),
        df \in OneOf({Entry("defer", PyBool(TRUE)), Entry("inline", PyStr(""))}),
        b \in OneOf({Entry("bogus", PyStr("should_not_pass"))}),
        v \in OneOf({Entry("vars", PyDict(Entry("flag", PyBool(TRUE))))})}

\* a declaration of the 'vars' section: required, strict, allowed values
Declaration(required, strict, values) ==
    [required |-> required, strict |-> strict, values |-> values]

Declared ==
    {EmptyDict,
     Entry("must_set", Declaration(TRUE, FALSE, {})),
     Entry("flag", Declaration(FALSE, TRUE, {PyBool(TRUE)}))}

Defaults == OneOf({Entry("default", PyStr("dev")), Entry("default", PyStr("missing_env"))})

ProdOptions == OneOf({Entry("prod", PyDict(Entry("target", PyStr("dev"))))})

ResolveConfigs ==
    {df @@ a @@ e @@ p :
        df \in Defaults,
        a \in OneOf({Entry("all", PyDict(c)) : c \in Contexts}),
        e \in OneOf({Entry("dev", PyDict(c)) : c \in Contexts}),
        p \in ProdOptions}

FilterConfigs == {Entry("dev", PyDict(c)) : c \in FilterContexts}

Requests == {PyNone, PyStr("dev"), PyStr("prod"), PyStr("missing_env"), PyStr("default")}

NoFile == [exists |-> FALSE, vars |-> EmptyDict, context |-> EmptyDict]

Idle == [status |-> "idle"]

DotInputs ==
    \/ /\ vars_yml \in {[exists |-> TRUE, vars |-> dv, context |-> c] :
                            dv \in Declared, c \in ResolveConfigs}
       /\ call \in {[dbt_command_name |-> "run", active_context |-> r,
                     passthrough_args |-> <<>>] : r \in Requests}
    \/ /\ vars_yml \in {[exists |-> TRUE, vars |-> EmptyDict, context |-> c] :
                            c \in FilterConfigs}
       /\ call \in {[dbt_command_name |-> n, active_context |-> PyStr("dev"),
                     passthrough_args |-> p] :
                        n \in DbtCommands, p \in {<<>>, <<"--full-refresh">>}}
    \/ /\ vars_yml = NoFile
       /\ call \in {[dbt_command_name |-> "run", active_context |-> r,
                     passthrough_args |-> <<>>] : r \in Requests}

InitDot ==
    /\ DotInputs
    /\ out = Idle
    /\ repo = Idle
    /\ gitlog = <<>>
    /\ cli = Idle
    /\ profiles = Idle

Result ==
    dbt_command(call.dbt_command_name, vars_yml, call.active_context, call.passthrough_args)

\* dot.dbt_command returns a command list
DbtCommandReturns ==
    /\ out = Idle
    /\ \E r \in {Result} : r.status = "ok" /\ out' = r
    /\ UNCHANGED <<vars_yml, call, repo, gitlog, cli, profiles>>

\* dot.dbt_command raises
DbtCommandRaises ==
    /\ out = Idle
    /\ \E r \in {Result} : r.status = "error" /\ out' = r
    /\ UNCHANGED <<vars_yml, call, repo, gitlog, cli, profiles>>

NextDot == DbtCommandReturns \/ DbtCommandRaises

SpecDot == InitDot /\ [][NextDot]_vars

---------------------------------------------------------------------------
(* git.py *)

\* how many create_worktree calls a run of the model makes
MaxCalls == 4

\* the commits of the repository, by their full hash
Commits == {"1f3a9c", "8be02d"}

\* the refs a caller may pass; "nope" names nothing (the repository also has
\* a branch named a@b, which the command line's tokens reach)
GitRefs == {"HEAD", "main", "8be02d", "nope"}

NoCommit == ""
NoReference == ""

\* repo.resolve_refish: the commit and, for a symbolic ref, the reference
resolve_refish(ref) ==
    CASE ref = "HEAD" -> [found |-> TRUE, commit |-> "1f3a9c", reference |-> "refs/heads/main"]
      [] ref = "main" -> [found |-> TRUE, commit |-> "1f3a9c", reference |-> "refs/heads/main"]
      [] ref = "8be02d" -> [found |-> TRUE, commit |-> "8be02d", reference |-> NoReference]
      [] ref = "a@b" -> [found |-> TRUE, commit |-> "8be02d", reference |-> "refs/heads/a@b"]
      [] OTHER -> [found |-> FALSE, commit |-> NoCommit, reference |-> NoReference]

\* resolve_git_ref: whatever resolve_refish raises becomes a ValueError
resolve_git_ref(ref) ==
    LET r == resolve_refish(ref)
    IN  IF r.found
        THEN [err |-> NoError, commit |-> r.commit, reference |-> r.reference]
        ELSE [err |-> Raised("ValueError", "unresolved_ref", ref,
                             "Could not resolve git ref '" \o ref \o "'"),
              commit |-> NoCommit, reference |-> NoReference]

\* Path(repo.workdir) / '.dot' / commit_hash_str / 'worktree'
WorktreePath(commit_hash_str) == "/repo/.dot/" \o commit_hash_str \o "/worktree"

\* repo.add_worktree(name, path[, reference]) together with the mkdir of the
\* parent before it: the worktree is registered under the commit hash and its
\* directory is made
add_worktree(r, commit_hash_str) ==
    [r EXCEPT !.worktrees = @ \cup {commit_hash_str},
              !.dirs = @ \cup {commit_hash_str},
              !.parents = @ \cup {commit_hash_str},
              !.adds = [@ EXCEPT ![commit_hash_str] = @ + 1]]

\* a create_worktree that takes a directory it finds at the path as the checkout
CreateWorktreeReuses(r, gitref) ==
    LET ref == resolve_git_ref(gitref)
        commit_hash_str == ref.commit
        worktree_path == WorktreePath(commit_hash_str)
    IN  IF ~ref.err.ok
        THEN [err |-> ref.err, path |-> "", commit |-> NoCommit, created |-> FALSE, repo |-> r]
        ELSE IF commit_hash_str \in r.worktrees \/ commit_hash_str \in r.dirs
        THEN [err |-> NoError, path |-> worktree_path, commit |-> commit_hash_str,
              created |-> FALSE, repo |-> r]
        ELSE [err |-> NoError, path |-> worktree_path, commit |-> commit_hash_str,
              created |-> TRUE, repo |-> add_worktree(r, commit_hash_str)]

CreateWorktreeNoLookup(r, gitref) ==
    LET ref == resolve_git_ref(gitref)
        commit_hash_str == ref.commit
        worktree_path == WorktreePath(commit_hash_str)
    IN  IF ~ref.err.ok
        THEN [err |-> ref.err, path |-> "", commit |-> NoCommit, created |-> FALSE, repo |-> r]
        ELSE IF commit_hash_str \in r.dirs
        THEN [err |-> Raised("ValueError", "dir_exists", worktree_path,
                             "Worktree directory already exists: " \o worktree_path),
              path |-> "", commit |-> commit_hash_str, created |-> FALSE, repo |-> r]
        ELSE [err |-> NoError, path |-> worktree_path, commit |-> commit_hash_str,
              created |-> TRUE, repo |-> add_worktree(r, commit_hash_str)]

\* create_worktree: resolve the ref; a worktree registered under the commit hash
\* is returned as it is; a directory in its place is an error; otherwise the
\* worktree is added.  (repo.lookup_worktree is taken to give None for a name
\* that is not registered, as the code's test of its result expects.)
create_worktree(r, gitref) ==
    LET ref == resolve_git_ref(gitref)
        commit_hash_str == ref.commit
        worktree_path == WorktreePath(commit_hash_str)
    IN  IF ~ref.err.ok
        THEN [err |-> ref.err, path |-> "", commit |-> NoCommit, created |-> FALSE, repo |-> r]
        ELSE IF commit_hash_str \in r.worktrees
        THEN [err |-> NoError, path |-> worktree_path, commit |-> commit_hash_str,
              created |-> FALSE, repo |-> r]
        ELSE IF commit_hash_str \in r.dirs
        THEN [err |-> Raised("ValueError", "dir_exists", worktree_path,
                             "Worktree directory already exists: " \o worktree_path),
              path |-> "", commit |-> commit_hash_str, created |-> FALSE, repo |-> r]
        ELSE [err |-> NoError, path |-> worktree_path, commit |-> commit_hash_str,
              created |-> TRUE, repo |-> add_worktree(r, commit_hash_str)]

\* the repository before the first call: no worktree is registered; a directory
\* may already lie where a commit's worktree would go
InitGit ==
    /\ \E stray \in SUBSET Commits :
          repo = [worktrees |-> {}, dirs |-> stray, parents |-> stray,
                  adds |-> [c \in Commits |-> 0]]
    /\ gitlog = <<>>
    /\ vars_yml = NoFile
    /\ call = Idle
    /\ out = Idle
    /\ cli = Idle
    /\ profiles = Idle

Called(gitref, r) ==
    [gitref |-> gitref, ok |-> r.err.ok, kind |-> r.err.kind, path |-> r.path,
     commit |-> r.commit, created |-> r.created]

\* a call of create_worktree that returns the worktree's path
CreateWorktreeReturns ==
    /\ Len(gitlog) < MaxCalls
    /\ \E gitref \in GitRefs :
          \E r \in {create_worktree(repo, gitref)} :
              /\ r.err.ok
              /\ repo' = r.repo
              /\ gitlog' = Append(gitlog, Called(gitref, r))
    /\ UNCHANGED <<vars_yml, call, out, cli, profiles>>

\* a call of create_worktree that raises
CreateWorktreeRaises ==
    /\ Len(gitlog) < MaxCalls
    /\ \E gitref \in GitRefs :
          \E r \in {create_worktree(repo, gitref)} :
              /\ ~r.err.ok
              /\ repo' = r.repo
              /\ gitlog' = Append(gitlog, Called(gitref, r))
    /\ UNCHANGED <<vars_yml, call, out, cli, profiles>>

NextGit == CreateWorktreeReturns \/ CreateWorktreeRaises

SpecGit == InitGit /\ [][NextGit]_vars

---------------------------------------------------------------------------
(* cli.py *)

\* the tokens of the model's command lines that start with '-'
KnownOptions == {"-v", "--verbose", "--dry-run", "--no-gitignore-check"}
OptionTokens == KnownOptions \cup {"--no-deps", "--defer", "--full-refresh"}

\* the environment tokens of the model's command lines, each with its parts
\* between the '@' characters
ContextTokens ==
    [t \in {"dev", "dev@HEAD", "dev@", "@HEAD", "dev@nope", "prod@a@b", "dev@a@b",
             "missing_env", "prod", "prod@HEAD", "prod@BAD"} |->
        CASE t = "dev@HEAD" -> <<"dev", "HEAD">>
          [] t = "dev@a@b" -> <<"dev", "a", "b">>
          [] t = "prod@HEAD" -> <<"prod", "HEAD">>
          [] t = "prod@BAD" -> <<"prod", "BAD">>
          [] t = "dev@" -> <<"dev", "">>
          [] t = "@HEAD" -> <<"", "HEAD">>
          [] t = "dev@nope" -> <<"dev", "nope">>
          [] t = "prod@a@b" -> <<"prod", "a", "b">>
          [] OTHER -> <<t>>]

\* the parts between '@' of a token
Parts(token) == ContextTokens[token]

RECURSIVE Join(_)
\* "@".join(parts)
Join(parts) ==
    IF Len(parts) = 1 THEN Head(parts) ELSE Head(parts) \o "@" \o Join(Tail(parts))

\* token.split("@", 1), for a token that holds an '@'
SplitOnce(token) == <<Head(Parts(token)), Join(Tail(Parts(token)))>>

\* argv.index('--'), 0 when argv holds no '--'
RECURSIVE IndexOfSeparator(_, _)
IndexOfSeparator(argv, i) ==
    IF i > Len(argv) THEN 0
    ELSE IF argv[i] = "--" THEN i ELSE IndexOfSeparator(argv, i + 1)

NoContext == ""

\* argparse over cli_args: the three flags, then the subcommand (one of the
\* allowed) and an optional context; anything else is an error (exit code 2)
RECURSIVE ArgParse(_, _)
ArgParse(cli_args, ns) ==
    IF cli_args = <<>>
    THEN [ns EXCEPT !.ok = ns.ok /\ ns.positionals >= 1]
    ELSE LET t == Head(cli_args)
         IN  IF t \in {"-v", "--verbose"}
             THEN ArgParse(Tail(cli_args), [ns EXCEPT !.verbose = TRUE])
             ELSE IF t = "--dry-run"
             THEN ArgParse(Tail(cli_args), [ns EXCEPT !.dry_run = TRUE])
             ELSE IF t = "--no-gitignore-check"
             THEN ArgParse(Tail(cli_args), [ns EXCEPT !.no_gitignore_check = TRUE])
             ELSE IF t \in OptionTokens
             THEN [ns EXCEPT !.ok = FALSE]
             ELSE IF ns.positionals = 0
             THEN ArgParse(Tail(cli_args),
                           [ns EXCEPT !.positionals = 1, !.dbt_command = t,
                                      !.ok = ns.ok /\ t \in DbtCommands])
             ELSE IF ns.positionals = 1
             THEN ArgParse(Tail(cli_args), [ns EXCEPT !.positionals = 2, !.context = t])
             ELSE [ns EXCEPT !.ok = FALSE]

EmptyNamespace ==
    [ok |-> TRUE, verbose |-> FALSE, dry_run |-> FALSE, no_gitignore_check |-> FALSE,
     positionals |-> 0, dbt_command |-> "", context |-> NoContext]

\* parse_args: what follows the first '--' is passed through, the rest is parsed
parse_args(argv) ==
    LET idx == IndexOfSeparator(argv, 1)
        cli_args == IF idx > 0 THEN SubSeq(argv, 1, idx - 1) ELSE argv
        passthrough_args == IF idx > 0 THEN SubSeq(argv, idx + 1, Len(argv)) ELSE <<>>
    IN  [args |-> ArgParse(cli_args, EmptyNamespace), passthrough_args |-> passthrough_args]

\* app, lines 146-152: the context token's name and git ref
ContextOf(context) ==
    IF context # NoContext /\ Len(Parts(context)) > 1
    THEN (IF SplitOnce(context)[1] = "" THEN PyNone ELSE PyStr(SplitOnce(context)[1]))
    ELSE (IF context = NoContext THEN PyNone ELSE PyStr(context))

GitrefOf(context) ==
    IF context # NoContext /\ Len(Parts(context)) > 1
    THEN (IF SplitOnce(context)[2] = "" THEN PyNone ELSE PyStr(SplitOnce(context)[2]))
    ELSE PyNone

\* dot.dbt_command as app calls it, with a git ref: for a git ref the commit is
\* resolved and its worktree ensured before the command is built
DbtCommandAt(dbt_command_name, file, active_context, passthrough_args, gitref, r) ==
    LET tree == create_worktree(r, gitref.s)
        built == dbt_command(dbt_command_name, file, active_context, passthrough_args)
    IN  IF gitref.ty = "none" THEN [built |-> built, repo |-> r]
        ELSE IF ~tree.err.ok
        THEN [built |-> [status |-> "error", err |-> tree.err, name |-> active_context,
                         merged |-> EmptyDict, filtered |-> EmptyDict, command |-> <<>>],
              repo |-> tree.repo]
        ELSE [built |-> built, repo |-> tree.repo]

\* the environment tokens given as the positional argument
PositionalTokens ==
    {"dev", "dev@HEAD", "dev@", "@HEAD", "dev@nope", "prod@a@b", "dev@a@b", "missing_env"}

\* the tokens given to --defer
DeferTokens == {"prod", "dev@", "prod@HEAD", "@HEAD", "prod@BAD", "prod@a@b"}

\* command lines argparse rejects: no subcommand, a subcommand that is not one
\* of the choices, a positional argument too many
UsageErrors == {<<>>, <<"nosuch">>, <<"build", "dev", "extra">>}

\* the command lines of the model: the subcommands with and without an
\* environment token, the builds that defer to a baseline, the usage errors
CommandLines ==
    {o1 \o o2 \o o3 \o o4 \o <<c>> \o e \o p :
        o1 \in {<<>>, <<"--verbose">>},
        o2 \in {<<>>, <<"--dry-run">>},
        o3 \in {<<>>, <<"--no-gitignore-check">>},
        o4 \in {<<>>, <<"--no-deps">>},
        c \in {"build", "deps", "run"},
        e \in {<<>>} \cup {<<t>> : t \in PositionalTokens},
        p \in {<<>>, <<"--", "--full-refresh", "--", "-v">>}}
    \cup
    {o3 \o o4 \o <<"build">> \o e \o <<"--defer", d>> :
        o3 \in {<<>>, <<"--no-gitignore-check">>},
        o4 \in {<<>>, <<"--no-deps">>},
        e \in {<<>>, <<"dev@HEAD">>},
        d \in DeferTokens}
    \cup UsageErrors

\* the configuration of the command line's tests: default dev, dev sets target
TestFile ==
    [exists |-> TRUE, vars |-> EmptyDict,
     context |-> Entry("default", PyStr("dev"))
                 @@ Entry("dev", PyDict(Entry("target", PyStr("dev"))))]

\* the configuration of the tests of --defer: default dev, dev and prod empty
DeferFile ==
    [exists |-> TRUE, vars |-> EmptyDict,
     context |-> Entry("default", PyStr("dev"))
                 @@ Entry("dev", PyDict(EmptyDict)) @@ Entry("prod", PyDict(EmptyDict))]

\* .dot/build/<shortHash>/env/<env>/target of the tests' baseline: not there,
\* there without manifest.json, there with it
Baselines == {"missing", "without_manifest", "with_manifest"}

\* the exit codes of the tool in the model
ToolReturnCodes == {0, 1, 2}

\* no tool has returned
NoReturnCode == -1

\* an invocation: its command line, the .gitignore, dbt_project.yml and the
\* baseline on disk; what the user would answer to a prompt about the editor's
\* settings (e: never), with no .dot/config.yml and no .vscode/settings.json yet
InitCli ==
    /\ \E argv \in CommandLines, gitignore \in {"missing", "without_entry", "with_entry"},
          project \in BOOLEAN, baseline \in Baselines :
          cli = [pc |-> "parse", argv |-> argv, args |-> EmptyNamespace,
                 passthrough_args |-> <<>>, gitignore |-> gitignore,
                 gitignore_before |-> gitignore,
                 dbt_project_yml |-> project, baseline |-> baseline,
                 prompts |-> 0, requested |-> <<>>,
                 dbt_command |-> <<>>, spawned |-> <<>>, traceback |-> FALSE,
                 editor_answer |-> "e", config_yml |-> "absent",
                 settings_json |-> FALSE,
                 printed |-> <<>>, error |-> "", returncode |-> NoReturnCode, interrupted |-> FALSE,
                 exit |-> 0]
    /\ vars_yml \in {TestFile, DeferFile, NoFile}
    /\ \E stray \in {{}, {resolve_refish("HEAD").commit}} :
          repo = [worktrees |-> {}, dirs |-> stray, parents |-> stray,
                  adds |-> [c \in Commits |-> 0]]
    /\ gitlog = <<>>
    /\ call = Idle
    /\ out = Idle
    /\ profiles = Idle

Exit(code) == [cli EXCEPT !.pc = "exit", !.exit = code]

\* the exit code for a KeyboardInterrupt
InterruptCode == 130

\* parse_args returns
ParseArgsReturns ==
    /\ cli.pc = "parse"
    /\ parse_args(cli.argv).args.ok
    /\ cli' = [cli EXCEPT !.pc = "gitignore", !.args = parse_args(cli.argv).args,
                          !.passthrough_args = parse_args(cli.argv).passthrough_args]
    /\ UNCHANGED <<vars_yml, call, out, repo, gitlog, profiles>>

\* argparse rejects the command line: usage message, exit code 2
ParseArgsExits ==
    /\ cli.pc = "parse"
    /\ ~parse_args(cli.argv).args.ok
    /\ cli' = Exit(2)
    /\ UNCHANGED <<vars_yml, call, out, repo, gitlog, profiles>>

\* --no-gitignore-check: enforce_dot_gitignore is not called
GitignoreCheckSkipped ==
    /\ cli.pc = "gitignore"
    /\ cli.args.no_gitignore_check
    /\ cli' = [cli EXCEPT !.pc = "project"]
    /\ UNCHANGED <<vars_yml, call, out, repo, gitlog, profiles>>

\* enforce_dot_gitignore: no .gitignore in the repository root
GitignoreMissing ==
    /\ cli.pc = "gitignore"
    /\ ~cli.args.no_gitignore_check
    /\ cli.gitignore = "missing"
    /\ cli' = Exit(1)
    /\ UNCHANGED <<vars_yml, call, out, repo, gitlog, profiles>>

\* enforce_dot_gitignore: a '.dot' or '.dot/' entry is there
GitignoreEntryPresent ==
    /\ cli.pc = "gitignore"
    /\ ~cli.args.no_gitignore_check
    /\ cli.gitignore = "with_entry"
    /\ cli' = [cli EXCEPT !.pc = "project"]
    /\ UNCHANGED <<vars_yml, call, out, repo, gitlog, profiles>>

\* a check that, having appended the entry, loses the passthrough arguments
GitignoreEntryAddedTaints ==
    /\ cli.pc = "gitignore"
    /\ ~cli.args.no_gitignore_check
    /\ cli.gitignore = "without_entry"
    /\ cli' = [cli EXCEPT !.pc = "project", !.gitignore = "with_entry", !.prompts = @ + 1,
                          !.passthrough_args = <<>>]
    /\ UNCHANGED <<vars_yml, call, out, repo, gitlog, profiles>>

\* enforce_dot_gitignore: no entry, the user answers y and '.dot/' is appended
GitignoreEntryAdded ==
    /\ cli.pc = "gitignore"
    /\ ~cli.args.no_gitignore_check
    /\ cli.gitignore = "without_entry"
    /\ cli' = [cli EXCEPT !.pc = "project", !.gitignore = "with_entry", !.prompts = @ + 1]
    /\ UNCHANGED <<vars_yml, call, out, repo, gitlog, profiles>>

\* a check that asks, and goes on whatever the answer
GitignoreRefusedGoesOn ==
    /\ cli.pc = "gitignore"
    /\ ~cli.args.no_gitignore_check
    /\ cli.gitignore = "without_entry"
    /\ cli' = [cli EXCEPT !.pc = "project", !.prompts = @ + 1]
    /\ UNCHANGED <<vars_yml, call, out, repo, gitlog, profiles>>

\* enforce_dot_gitignore: no entry, the user answers anything but y
GitignoreRefused ==
    /\ cli.pc = "gitignore"
    /\ ~cli.args.no_gitignore_check
    /\ cli.gitignore = "without_entry"
    /\ cli' = [Exit(1) EXCEPT !.prompts = @ + 1]
    /\ UNCHANGED <<vars_yml, call, out, repo, gitlog, profiles>>

\* app, lines 140-142: dbt_project.yml is in the working directory
ProjectFound ==
    /\ cli.pc = "project"
    /\ cli.dbt_project_yml
    /\ cli' = [cli EXCEPT !.pc = "build"]
    /\ UNCHANGED <<vars_yml, call, out, repo, gitlog, profiles>>

ProjectMissing ==
    /\ cli.pc = "project"
    /\ ~cli.dbt_project_yml
    /\ cli' = Exit(1)
    /\ UNCHANGED <<vars_yml, call, out, repo, gitlog, profiles>>

Built ==
    DbtCommandAt(cli.args.dbt_command, vars_yml, ContextOf(cli.args.context),
                 cli.passthrough_args, GitrefOf(cli.args.context), repo)

\* app, lines 144-171: the command is built, once, for the requested subcommand,
\* and printed
CommandBuilt ==
    /\ cli.pc = "build"
    /\ \E b \in {Built} :
          /\ b.built.status = "ok"
          /\ cli' = [cli EXCEPT !.pc = "run", !.dbt_command = b.built.command,
                                !.printed = b.built.command,
                                !.requested = Append(@, cli.args.dbt_command)]
          /\ repo' = b.repo
    /\ UNCHANGED <<vars_yml, call, out, gitlog, profiles>>

\* a build step that, on an error, falls back to the bare subcommand and goes on
CommandFailedGoesOn ==
    /\ cli.pc = "build"
    /\ \E b \in {Built} :
          /\ b.built.status = "error"
          /\ cli' = [cli EXCEPT !.pc = "run", !.error = b.built.err.kind,
                                !.dbt_command = <<"dbt", cli.args.dbt_command>>,
                                !.requested = Append(@, cli.args.dbt_command)]
          /\ repo' = b.repo
    /\ UNCHANGED <<vars_yml, call, out, gitlog, profiles>>

\* app, lines 163-168: building raised; the error is printed and the exit code
\* is 1 (with --verbose the exception is raised again and ends the process)
CommandFailed ==
    /\ cli.pc = "build"
    /\ \E b \in {Built} :
          /\ b.built.status = "error"
          /\ cli' = [Exit(1) EXCEPT !.traceback = cli.args.verbose,
                                    !.error = b.built.err.kind,
                                    !.requested = Append(@, cli.args.dbt_command)]
          /\ repo' = b.repo
    /\ UNCHANGED <<vars_yml, call, out, gitlog, profiles>>

\* a dry run that runs the command all the same
DryRunSpawns ==
    /\ cli.pc = "run"
    /\ cli.args.dry_run
    /\ cli' = [Exit(0) EXCEPT !.spawned = Append(@, cli.dbt_command)]
    /\ UNCHANGED <<vars_yml, call, out, repo, gitlog, profiles>>

\* app, lines 173-174: --dry-run returns 0 without running the command
DryRun ==
    /\ cli.pc = "run"
    /\ cli.args.dry_run
    /\ cli' = Exit(0)
    /\ UNCHANGED <<vars_yml, call, out, repo, gitlog, profiles>>

\* a run step that reports any failure of the tool as exit code 1
RunCommandChecked ==
    /\ cli.pc = "run"
    /\ ~cli.args.dry_run
    /\ \E returncode \in ToolReturnCodes :
          cli' = [Exit(IF returncode = 0 THEN 0 ELSE 1) EXCEPT
                      !.spawned = Append(@, cli.dbt_command),
                      !.returncode = returncode]
    /\ UNCHANGED <<vars_yml, call, out, repo, gitlog, profiles>>

\* a build step that installs the dependencies before every command it runs
RunCommandAfterDeps ==
    /\ cli.pc = "run"
    /\ ~cli.args.dry_run
    /\ \E returncode \in ToolReturnCodes :
          cli' = [Exit(returncode) EXCEPT
                      !.spawned = @ \o <<(<<"dbt", "deps">>), cli.dbt_command>>,
                      !.returncode = returncode]
    /\ UNCHANGED <<vars_yml, call, out, repo, gitlog, profiles>>

\* app, lines 176-183: the command is run once and its return code returned
RunCommand ==
    /\ cli.pc = "run"
    /\ ~cli.args.dry_run
    /\ \E returncode \in ToolReturnCodes :
          cli' = [Exit(returncode) EXCEPT !.spawned = Append(@, cli.dbt_command),
                                          !.returncode = returncode]
    /\ UNCHANGED <<vars_yml, call, out, repo, gitlog, profiles>>

\* __main__, lines 186-189: the user interrupts app before the tool is run;
\* KeyboardInterrupt is no Exception, so nothing in app catches it
Interrupted ==
    /\ cli.pc \in {"parse", "gitignore", "project", "build", "run"}
    /\ cli' = [Exit(InterruptCode) EXCEPT !.interrupted = TRUE]
    /\ UNCHANGED <<vars_yml, call, out, repo, gitlog, profiles>>

\* __main__, lines 186-189: the user interrupts while the tool runs
RunInterrupted ==
    /\ cli.pc = "run"
    /\ ~cli.args.dry_run
    /\ cli' = [Exit(InterruptCode) EXCEPT !.interrupted = TRUE,
                                          !.spawned = Append(@, cli.dbt_command)]
    /\ UNCHANGED <<vars_yml, call, out, repo, gitlog, profiles>>

NextCli ==
    \/ ParseArgsReturns \/ ParseArgsExits
    \/ GitignoreCheckSkipped \/ GitignoreMissing \/ GitignoreEntryPresent
    \/ GitignoreEntryAdded \/ GitignoreRefused
    \/ ProjectFound \/ ProjectMissing
    \/ CommandBuilt \/ CommandFailed
    \/ DryRun \/ RunCommand
    \/ Interrupted \/ RunInterrupted

SpecCli == InitCli /\ [][NextCli]_vars

---------------------------------------------------------------------------
(* profiles.py *)

\* how many characters of the commit hash go into the suffix
ShortHashLength == 8

RECURSIVE Text(_)
\* the string made of a sequence of characters
Text(chars) == IF chars = <<>> THEN "" ELSE Head(chars) \o Text(Tail(chars))

\* chars[:n]
Prefix(chars, n) == SubSeq(chars, 1, IF Len(chars) < n THEN Len(chars) ELSE n)

\* the commit hashes a caller passes, as characters (cut to twelve characters
\* in the model), and the seven-character hash of the tests
CommitHashes ==
    {<<"1", "f", "3", "a", "9", "c", "4", "7", "d", "0", "e", "2">>,
     <<"8", "b", "e", "0", "2", "d", "5", "5", "a", "1", "c", "9">>,
     <<"a", "b", "c", "1", "2", "3", "4">>}

PROFILE_NAME == "test_profile"
ENVIRONMENT == "dev"

\* the target output blocks: a type, and any of schema, dataset, threads, method
TargetBlocks ==
    {ty @@ sc @@ ds @@ th @@ me :
        ty \in {Entry("type", PyStr("postgres")), Entry("type", PyStr("bigquery"))},
        sc \in OneOf({Entry("schema", PyStr("analytics"))}),
        ds \in OneOf({Entry("dataset", PyStr("raw_layer"))}),
        th \in OneOf({Entry("threads", PyInt(4))}),
        me \in OneOf({Entry("method", PyStr("oauth"))})}

\* {name: {target: dev, outputs: outputs}}
Profile(name, outputs) ==
    Entry(name, PyDict(Entry("target", PyStr(ENVIRONMENT)) @@ Entry("outputs", PyDict(outputs))))

NoProfiles == [exists |-> FALSE, content |-> EmptyDict]

\* the profiles.yml files dbt debug leads to: the profile with the block as its
\* dev output, alone or beside a prod output; the block under prod only; the
\* profile without outputs; another profile; and no file at all
ProfilesFiles(block) ==
    {[exists |-> TRUE, content |-> c] :
        c \in {Profile(PROFILE_NAME, Entry(ENVIRONMENT, PyDict(block))),
               Profile(PROFILE_NAME, Entry(ENVIRONMENT, PyDict(block))
                                     @@ Entry("prod", PyDict(Entry("schema", PyStr("live"))))),
               Profile(PROFILE_NAME, Entry("prod", PyDict(block))),
               Entry(PROFILE_NAME, PyDict(Entry("target", PyStr(ENVIRONMENT)))),
               Profile("other_profile", Entry(ENVIRONMENT, PyDict(block)))}}
    \cup {NoProfiles}

NotWritten == [exists |-> FALSE, content |-> EmptyDict]

\* write_isolated_profiles_yml: the file found by _profiles_yml_path is read,
\* the output of the active context gets its schema suffixed with the short
\* hash, and a profiles.yml with that output alone is written
write_isolated_profiles_yml(profiles_yml, profile_name, commit_hash, active_context) ==
    LET short_hash == Text(Prefix(commit_hash, ShortHashLength))
        all_profiles == profiles_yml.content
        profile == all_profiles[profile_name].d
        target == profile["outputs"].d[active_context].d
        isolated ==
            Update(target,
                   Entry("schema",
                         PyStr(Get(target, "schema", PyStr("dbt")).s \o "_" \o short_hash)))
    IN  IF ~profiles_yml.exists
        THEN [err |-> Raised("FileNotFoundError", "no_profiles", "",
                             "Could not detect profiles.yml location."),
              written |-> NotWritten]
        ELSE IF profile_name \notin DOMAIN all_profiles
        THEN [err |-> Raised("ValueError", "no_profile", profile_name,
                             "Profile '" \o profile_name \o "' not found in profiles.yml."),
              written |-> NotWritten]
        ELSE IF "outputs" \notin DOMAIN profile
        THEN [err |-> Raised("ValueError", "no_outputs", profile_name,
                             "Profile '" \o profile_name
                                 \o "' does not have an 'outputs' section in profiles.yml"),
              written |-> NotWritten]
        ELSE IF active_context \notin DOMAIN profile["outputs"].d
        THEN [err |-> Raised("ValueError", "no_target", active_context,
                             "Target '" \o active_context \o "' not found in profile '"
                                 \o profile_name \o "' outputs."),
              written |-> NotWritten]
        ELSE [err |-> NoError,
              written |->
                  [exists |-> TRUE,
                   content |->
                       Entry(profile_name,
                             PyDict(Entry("target", PyStr(active_context))
                                    @@ Entry("outputs",
                                             PyDict(Entry(active_context, PyDict(isolated))))))]]

InitProfiles ==
    /\ \E block \in TargetBlocks, commit_hash \in CommitHashes :
          \E file \in ProfilesFiles(block) :
              profiles = [pc |-> "call", block |-> block, profiles_yml |-> file,
                          commit_hash |-> commit_hash, err |-> NoError,
                          written |-> NotWritten]
    /\ vars_yml = NoFile
    /\ call = Idle
    /\ out = Idle
    /\ repo = Idle
    /\ gitlog = <<>>
    /\ cli = Idle

Written ==
    write_isolated_profiles_yml(profiles.profiles_yml, PROFILE_NAME, profiles.commit_hash,
                                ENVIRONMENT)

\* write_isolated_profiles_yml returns: the isolated profiles.yml is written
WriteIsolatedProfilesReturns ==
    /\ profiles.pc = "call"
    /\ \E w \in {Written} :
          /\ w.err.ok
          /\ profiles' = [profiles EXCEPT !.pc = "done", !.written = w.written]
    /\ UNCHANGED <<vars_yml, call, out, repo, gitlog, cli>>

\* write_isolated_profiles_yml raises: nothing is written
WriteIsolatedProfilesRaises ==
    /\ profiles.pc = "call"
    /\ \E w \in {Written} :
          /\ ~w.err.ok
          /\ profiles' = [profiles EXCEPT !.pc = "done", !.err = w.err]
    /\ UNCHANGED <<vars_yml, call, out, repo, gitlog, cli>>

NextProfiles == WriteIsolatedProfilesReturns \/ WriteIsolatedProfilesRaises

SpecProfiles == InitProfiles /\ [][NextProfiles]_vars

---------------------------------------------------------------------------
(* Claims about environment resolution and argument filtering (SpecDot) *)

Done == out.status \in {"ok", "error"}

Config == vars_yml.context

\* the names that are not environments
Reserved == {"default", "all"}

\* the layer of the configuration under key, empty when the key is absent
Layer(key) == Get(Config, key, PyDict(EmptyDict)).d

\* the value of the highest layer, 'all' then the environment, that defines x
Highest(lower, higher, x) == IF x \in DOMAIN higher THEN higher[x] ELSE lower[x]

\* the name resolution looks up: the requested one, or the default for None
Effective ==
    IF call.active_context.ty = "none" THEN Get(Config, "default", PyNone)
    ELSE call.active_context

ResolvedConcrete ==
    /\ out.status = "ok"
    /\ out.name.ty = "str"
    /\ out.name.s \in DOMAIN Config \ Reserved

\* C1: the value resolution returns for a key x, an argument or a variable inside
\* vars, is the value of the highest-precedence layer that defines x (the code
\* reads one configuration file, so the layers are its 'all' and its <env>).
C1_HighestLayerWins ==
    ResolvedConcrete =>
        LET lo == Layer("all")
            hi == Layer(out.name.s)
            lov == EnvVars(lo)
            hiv == EnvVars(hi)
        IN  /\ \A x \in (DOMAIN lo \cup DOMAIN hi) \ {"vars"} :
                x \in DOMAIN EnvArgs(out.merged)
                /\ EnvArgs(out.merged)[x] = Highest(lo, hi, x)
            /\ \A x \in DOMAIN lov \cup DOMAIN hiv :
                x \in DOMAIN EnvVars(out.merged)
                /\ EnvVars(out.merged)[x] = Highest(lov, hiv, x)

\* C2: a variable defined only in the lower layer is still in the resolved vars,
\* with its value, when the higher layer has a vars mapping that does not mention it.
C2_VarsMergedKeyByKey ==
    ResolvedConcrete =>
        LET lo == Layer("all")
            hi == Layer(out.name.s)
        IN  "vars" \in DOMAIN hi =>
                \A x \in DOMAIN EnvVars(lo) \ DOMAIN EnvVars(hi) :
                    x \in DOMAIN EnvVars(out.merged)
                    /\ EnvVars(out.merged)[x] = EnvVars(lo)[x]

\* the configuration of the spec's example: default dev, a flag set to false in
\* 'all' and to true in dev, which also sets target
ExampleConfig ==
    Entry("default", PyStr("dev"))
    @@ Entry("all", PyDict(Entry("vars", PyDict(Entry("flag", PyBool(FALSE))))))
    @@ Entry("dev", PyDict(Entry("target", PyStr("dev"))
                           @@ Entry("vars", PyDict(Entry("flag", PyBool(TRUE))))))

\* C3: with no environment requested the default name is resolved: the outcome is
\* that of requesting the default by name, the resolved name is the default, the
\* args are the non-vars keys of the layers and, for the example configuration,
\* exactly {target: dev} with vars exactly {flag: true}.
C3_DefaultSubstituted ==
    (Done /\ vars_yml.exists /\ call.active_context = PyNone) =>
        LET dflt == Get(Config, "default", PyNone)
        IN  /\ out = dbt_command(call.dbt_command_name, vars_yml, dflt, call.passthrough_args)
            /\ out.name = dflt
            /\ (out.status = "ok" /\ dflt.ty = "str") =>
                  DOMAIN EnvArgs(out.merged)
                      = (DOMAIN Layer("all") \cup DOMAIN Layer(dflt.s)) \ {"vars"}
            /\ Config = ExampleConfig =>
                  /\ out.status = "ok"
                  /\ out.name = PyStr("dev")
                  /\ EnvArgs(out.merged) = Entry("target", PyStr("dev"))
                  /\ EnvVars(out.merged) = Entry("flag", PyBool(TRUE))

C3_Witness ==
    /\ out.status = "ok"
    /\ call.active_context = PyNone
    /\ Config = ExampleConfig
    /\ out.name = PyStr("dev")
    /\ out.command = <<"dbt", "run", "--vars={\"flag\": true}", "--target", "dev">>

C5_RequiredVariableEnforced ==
    out.status = "ok" =>
        \A v \in DOMAIN vars_yml.vars :
            vars_yml.vars[v].required =>
                /\ v \in DOMAIN EnvVars(out.merged)
                /\ EnvVars(out.merged)[v].ty # "none"

\* C6: a required variable given a value only in 'all' satisfies the requirement
\* for every concrete environment: resolving a defined environment succeeds and
\* its vars hold the variable with the value from 'all'.
C6_RequiredSatisfiedViaAll ==
    \A v \in DOMAIN vars_yml.vars :
        (/\ Done
         /\ vars_yml.vars[v].required
         /\ v \in DOMAIN EnvVars(Layer("all"))
         /\ EnvVars(Layer("all"))[v].ty # "none"
         /\ \A e \in DOMAIN Config \ Reserved : v \notin DOMAIN EnvVars(Layer(e))
         /\ call.active_context.ty = "str"
         /\ call.active_context.s \in DOMAIN Config \ Reserved)
        => /\ out.status = "ok"
           /\ v \in DOMAIN EnvVars(out.merged)
           /\ EnvVars(out.merged)[v] = EnvVars(Layer("all"))[v]

\* C7: resolution fails whenever a declared strict variable with an allowed-value
\* set has, in the merged vars, a value outside the set.
C7_StrictValueEnforced ==
    out.status = "ok" =>
        \A v \in DOMAIN vars_yml.vars :
            (vars_yml.vars[v].strict /\ vars_yml.vars[v].values # {}
             /\ v \in DOMAIN EnvVars(out.merged))
            => EnvVars(out.merged)[v] \in vars_yml.vars[v].values

\* C8: the arguments derived from the environment hold no key outside the
\* subcommand's allow-list (bogus is dropped, select is dropped for clean), no
\* dropped key reaches the command, and vars is carried through unchanged.
C8_OnlyAllowedArgsAndVars ==
    out.status = "ok" =>
        /\ \A k \in DOMAIN out.filtered : Flag(k) \in DBT_COMMAND_ARGS[call.dbt_command_name]
        /\ "bogus" \notin DOMAIN out.filtered
        /\ call.dbt_command_name = "clean" => DOMAIN out.filtered \subseteq {"vars", "target"}
        /\ \A i \in 1..Len(out.command) :
              /\ out.command[i] # "--bogus"
              /\ (out.command[i] = "--select" =>
                    Flag("select") \in DBT_COMMAND_ARGS[call.dbt_command_name])
        /\ "vars" \in DOMAIN out.merged =>
              /\ "vars" \in DOMAIN out.filtered
              /\ out.filtered["vars"] = out.merged["vars"]

C8_Witness ==
    /\ out.status = "ok"
    /\ call.dbt_command_name = "clean"
    /\ {"bogus", "select", "target", "vars"} \subseteq DOMAIN out.merged
    /\ DOMAIN out.filtered = {"target", "vars"}
    /\ out.command = <<"dbt", "clean", "--vars={\"flag\": true}", "--target", "dev">>

---------------------------------------------------------------------------
(* Claims about the worktree operation (SpecGit) *)

\* C9: calls for the same commit never raise after the first success, always
\* return the same path, and add the worktree at most once: a call that finds
\* the worktree registered returns its path and changes nothing.
C9_WorktreeIdempotent ==
    /\ \A c \in Commits : repo.adds[c] <= 1
    /\ \A i, j \in 1..Len(gitlog) :
          (i < j /\ gitlog[i].ok /\ resolve_refish(gitlog[j].gitref).commit = gitlog[i].commit)
          => /\ gitlog[j].ok
             /\ gitlog[j].path = gitlog[i].path
             /\ ~gitlog[j].created
    /\ \A c \in Commits :
          Cardinality({i \in 1..Len(gitlog) : gitlog[i].created /\ gitlog[i].commit = c})
              = repo.adds[c]
    /\ repo.worktrees = {c \in Commits : repo.adds[c] = 1}

C9_Witness ==
    /\ Len(gitlog) >= 3
    /\ gitlog[1].gitref = "HEAD" /\ gitlog[1].ok /\ gitlog[1].created
    /\ gitlog[2].gitref = "main" /\ gitlog[2].ok /\ ~gitlog[2].created
    /\ gitlog[3].gitref = "HEAD" /\ gitlog[3].ok /\ ~gitlog[3].created
    /\ gitlog[3].path = "/repo/.dot/1f3a9c/worktree"
    /\ repo.adds["1f3a9c"] = 1

---------------------------------------------------------------------------
(* Claims about the command line (SpecCli) *)

\* the subcommands of the tool invocations made, in order
Invoked == [i \in 1..Len(cli.spawned) |-> cli.spawned[i][2]]

\* an invocation of the command line that nothing but the tool can fail: the
\* gitignore check is bypassed, the project and its configuration are there, no
\* directory lies where a worktree would go and the user does not interrupt
PlainRun(argv) ==
    /\ cli.pc = "exit"
    /\ ~cli.interrupted
    /\ cli.argv = argv
    /\ cli.dbt_project_yml
    /\ vars_yml = TestFile
    /\ repo.dirs \subseteq repo.worktrees

\* C10: build on dev@HEAD issues exactly two tool invocations, deps and then
\* build; with the skip-deps flag exactly one, build.
C10_DepsThenBuild ==
    /\ PlainRun(<<"--no-gitignore-check", "build", "dev@HEAD">>)
          => Invoked = <<"deps", "build">>
    /\ PlainRun(<<"--no-gitignore-check", "--no-deps", "build", "dev@HEAD">>)
          => Invoked = <<"build">>

\* how many of the tool invocations made are dependency installs
DepsRuns == Cardinality({i \in 1..Len(cli.spawned) : Invoked[i] = "deps"})

\* C11: the dependency install is never run twice in one invocation: a requested
\* deps, with or without a git ref, issues exactly one tool invocation, and a
\* subcommand on an environment token without a git ref issues exactly one, its own.
C11_DepsNeverTwice ==
    /\ DepsRuns <= 1
    /\ \A e \in {<<>>, <<"dev">>, <<"dev@HEAD">>} :
          PlainRun(<<"--no-gitignore-check", "deps">> \o e) => Invoked = <<"deps">>
    /\ \A c \in {"build", "run"}, e \in {<<>>, <<"dev">>} :
          PlainRun(<<"--no-gitignore-check", c>> \o e) => Invoked = <<c>>

C11_Witness ==
    /\ PlainRun(<<"--no-gitignore-check", "deps", "dev@HEAD">>)
    /\ cli.spawned = <<(<<"dbt", "deps", "--target", "dev">>)>>
    /\ repo.worktrees = {"1f3a9c"}
    /\ cli.exit = 0

RECURSIVE IndexAfter(_, _, _)
\* the index of the token that follows the first flag in argv, 0 without one
IndexAfter(argv, flag, i) ==
    IF i >= Len(argv) THEN 0
    ELSE IF argv[i] = flag THEN i + 1 ELSE IndexAfter(argv, flag, i + 1)

\* the token given to --defer on the command line, "" without --defer
DeferToken ==
    IF IndexAfter(cli.argv, "--defer", 1) = 0 THEN ""
    ELSE cli.argv[IndexAfter(cli.argv, "--defer", 1)]

\* a finished invocation that defers to token d and that the checks before the
\* build cannot fail: the gitignore check is bypassed and the project is there
DeferRun(d) ==
    /\ cli.pc = "exit"
    /\ DeferToken = d
    /\ cli.argv[1] = "--no-gitignore-check"
    /\ cli.dbt_project_yml

\* .dot/build/<shortHash>/env/<env>/target
BaselinePath(short_hash, env) == ".dot/build/" \o short_hash \o "/env/" \o env \o "/target"

\* C12: --defer prod@HEAD without a manifest in the baseline directory (the
\* directory missing, or there without manifest.json) fails with exit code 1 and
\* the build tool is not spawned.
C12_DeferWithoutBaselineFails ==
    (DeferRun("prod@HEAD") /\ vars_yml = DeferFile /\ cli.baseline # "with_manifest")
        => (cli.exit = 1 /\ cli.spawned = <<>>)

\* C13: --defer prod@HEAD with the baseline manifest present hands the tool an
\* argument list that holds --defer, --favor-state and --state followed by the
\* baseline path of prod, and the exit code is the tool's (0 when it succeeds).
C13_DeferInjectsState ==
    (DeferRun("prod@HEAD") /\ vars_yml = DeferFile /\ cli.baseline = "with_manifest"
     /\ cli.argv = <<"--no-gitignore-check", "--no-deps", "build", "dev@HEAD",
                     "--defer", "prod@HEAD">>)
        => /\ cli.exit \in ToolReturnCodes \ {2}
           /\ cli.spawned # <<>>
           /\ LET cmd == cli.spawned[Len(cli.spawned)]
                  at == IndexAfter(cmd, "--state", 1)
              IN  /\ \E i \in 1..Len(cmd) : cmd[i] = "--defer"
                  /\ \E i \in 1..Len(cmd) : cmd[i] = "--favor-state"
                  /\ at > 0
                  /\ cmd[at] = BaselinePath(resolve_refish("HEAD").commit, "prod")

\* C14: a --defer token without a git ref (prod), with an empty one (dev@), with
\* an environment that is not defined (prod@HEAD when only dev is), with an empty
\* environment and no default (@HEAD), or with a git ref that does not resolve
\* (prod@BAD) makes the invocation fail with exit code 1.
C14_DeferTokenValidated ==
    /\ \A d \in {"prod", "dev@", "prod@BAD"} : DeferRun(d) => cli.exit = 1
    /\ (DeferRun("prod@HEAD") /\ vars_yml = TestFile) => cli.exit = 1
    /\ (DeferRun("@HEAD") /\ "default" \notin DOMAIN vars_yml.context) => cli.exit = 1

\* a finished invocation on the environment token t that the checks before the
\* build cannot fail: the gitignore check is bypassed and the project is there
TokenRun(t) ==
    /\ cli.pc = "exit"
    /\ cli.args.ok
    /\ cli.args.context = t
    /\ cli.args.no_gitignore_check
    /\ cli.dbt_project_yml

\* C15: an environment token with more than one '@' (prod@a@b, dev@a@b) is
\* rejected: the invocation ends with exit code 1, and no tool is run on a ref
\* cut from the token.
C15_MultipleSeparatorsRejected ==
    \A t \in PositionalTokens :
        (Len(Parts(t)) > 2 /\ TokenRun(t)) => (cli.exit = 1 /\ cli.spawned = <<>>)

\* C16: the token dev@ (empty ref after the separator) pins the build to the
\* current HEAD: it is an isolated build, in the worktree of HEAD's commit, and
\* not the build in place that dev gets.
C16_EmptyRefPinsHead ==
    (TokenRun("dev@") /\ vars_yml = TestFile)
        => resolve_refish("HEAD").commit \in repo.worktrees

---------------------------------------------------------------------------
(* Claims about the isolated profile (SpecProfiles) *)

\* the call is over and the profiles.yml read has the profile of the project
\* with an output for the active environment
Isolatable ==
    /\ profiles.pc = "done"
    /\ profiles.profiles_yml.exists
    /\ PROFILE_NAME \in DOMAIN profiles.profiles_yml.content
    /\ "outputs" \in DOMAIN profiles.profiles_yml.content[PROFILE_NAME].d
    /\ ENVIRONMENT \in DOMAIN profiles.profiles_yml.content[PROFILE_NAME].d["outputs"].d

\* the target output block of the file read, and of the file written
OriginalBlock == profiles.profiles_yml.content[PROFILE_NAME].d["outputs"].d[ENVIRONMENT].d
WrittenBlock == profiles.written.content[PROFILE_NAME].d["outputs"].d[ENVIRONMENT].d

\* _<shortHash>
Suffix == "_" \o Text(Prefix(profiles.commit_hash, ShortHashLength))

\* the schema keys of the original block
SchemaKeys == {"schema", "dataset"} \cap DOMAIN OriginalBlock

\* C17: with exactly one of schema and dataset in the target output block, the
\* block written has the same keys (the other key is not introduced), the key
\* present holds its value followed by _<shortHash>, and every other key holds
\* its original value.
C17_SuffixOnPresentKey ==
    (Isolatable /\ Cardinality(SchemaKeys) = 1) =>
        /\ profiles.err.ok
        /\ profiles.written.exists
        /\ DOMAIN WrittenBlock = DOMAIN OriginalBlock
        /\ \A k \in SchemaKeys : WrittenBlock[k] = PyStr(OriginalBlock[k].s \o Suffix)
        /\ \A k \in DOMAIN OriginalBlock \ SchemaKeys : WrittenBlock[k] = OriginalBlock[k]

\* C18: with both schema and dataset in the target output block the call fails
\* with a ValueError and no isolated profiles.yml is written.
C18_BothKeysRejected ==
    (Isolatable /\ SchemaKeys = {"schema", "dataset"}) =>
        /\ ~profiles.err.ok
        /\ profiles.err.exc = "ValueError"
        /\ ~profiles.written.exists

\* C19: with neither schema nor dataset in the target output block, the block
\* written is the original block: no key is added and no suffix applied.
C19_NeitherKeyLeavesBlock ==
    (Isolatable /\ SchemaKeys = {}) =>
        /\ profiles.err.ok
        /\ profiles.written.exists
        /\ WrittenBlock = OriginalBlock

---------------------------------------------------------------------------
(* Claims about the final argument list (SpecDot) *)

\* C20: after the executable, the command is the subcommand, then the arguments
\* of the filtered environment, then the vars flag (there exactly when the
\* filtered vars are not empty), then the passthrough arguments as given, last.
C20_ArgumentOrder ==
    out.status = "ok" =>
        LET args == EnvArgs(out.filtered)
            vars_ == EnvVars(out.filtered)
        IN  Tail(out.command)
                = <<call.dbt_command_name>>
                  \o ArgTokens(args, Keys(args))
                  \o (IF Cardinality(DOMAIN vars_) > 0
                      THEN <<"--vars=" \o JsonDumps(vars_)>> ELSE <<>>)
                  \o call.passthrough_args

---------------------------------------------------------------------------
(* Claims about exit codes and the order of the steps (SpecCli) *)

Exited == cli.pc = "exit"

\* the invocation ended on an error found before any tool was run: it was not
\* interrupted, no command was built to print or run
FailedBeforeSpawn ==
    /\ Exited
    /\ ~cli.interrupted
    /\ cli.spawned = <<>>
    /\ cli.dbt_command = <<>>

\* the exit code of an interrupted invocation, and of one that ran the tool
InterruptOrToolCode ==
    /\ (Exited /\ cli.interrupted) => cli.exit = InterruptCode
    /\ (Exited /\ ~cli.interrupted /\ cli.spawned # <<>>) =>
          (cli.returncode \in ToolReturnCodes /\ cli.exit = cli.returncode)

BuildErrors == {"no_file", "not_found", "unresolved_ref", "dir_exists"}

C23_DryRunNeverSpawns ==
    cli.args.dry_run =>
        /\ cli.spawned = <<>>
        /\ cli.returncode = NoReturnCode
        /\ (Exited /\ ~cli.interrupted /\ cli.dbt_command # <<>>) =>
              (cli.exit = 0 /\ cli.printed = cli.dbt_command)

C23_Witness ==
    /\ Exited
    /\ cli.argv = <<"--dry-run", "--no-gitignore-check", "build", "dev">>
    /\ cli.args.dry_run
    /\ cli.printed = <<"dbt", "build", "--target", "dev">>
    /\ cli.spawned = <<>>
    /\ cli.exit = 0

---------------------------------------------------------------------------
(* Claims about loading the configuration (SpecDot) *)

\* C24: a file that holds the environments and also a root-level vars key is
\* refused: loading fails with a configuration error and no command is built.
C24_RootLevelVarsRejected ==
    (Done /\ vars_yml.exists /\ DOMAIN vars_yml.vars # {} /\ DOMAIN Config # {}) =>
        /\ out.status = "error"
        /\ out.err.exc = "ConfigError"
        /\ out.command = <<>>

\* C25: an absent configuration file is an empty configuration: with no file,
\* no environment requested and so no default, the call succeeds with the
\* environment name None, no args and no vars.
C25_AbsentFileIsEmpty ==
    (Done /\ ~vars_yml.exists /\ call.active_context = PyNone) =>
        /\ out.status = "ok"
        /\ out.name = PyNone
        /\ DOMAIN EnvArgs(out.merged) = {}
        /\ DOMAIN EnvVars(out.merged) = {}

---------------------------------------------------------------------------
(* Claims about a directory in the worktree's place (SpecGit) *)

\* the commits whose worktree directory is on disk without being a registered
\* worktree (a failed call leaves it so, a successful one registers what it makes)
Stray == repo.dirs \ repo.worktrees

\* C26: a call for a commit whose worktree directory is on disk but is not a
\* registered worktree fails with the directory-exists error, returns no path
\* and creates nothing: the directory is never registered or used.
C26_StrayDirectoryRefused ==
    /\ \A c \in Stray : repo.adds[c] = 0
    /\ \A i \in 1..Len(gitlog) :
          LET ref == resolve_refish(gitlog[i].gitref)
          IN  (ref.found /\ ref.commit \in Stray) =>
                  /\ ~gitlog[i].ok
                  /\ gitlog[i].kind = "dir_exists"
                  /\ gitlog[i].path = ""
                  /\ ~gitlog[i].created

C26_Witness ==
    /\ Len(gitlog) >= 2
    /\ gitlog[1].gitref = "HEAD" /\ ~gitlog[1].ok /\ gitlog[1].kind = "dir_exists"
    /\ gitlog[2].gitref = "8be02d" /\ gitlog[2].ok /\ gitlog[2].created
    /\ Stray = {"1f3a9c"}
    /\ repo.worktrees = {"8be02d"}

---------------------------------------------------------------------------
(* Claims about the .gitignore check (SpecCli) *)

\* parse_args has returned: the namespace holds the subcommand
Parsed == cli.args.positionals > 0

\* the check is on: the command line was parsed and does not bypass it
Checked == Parsed /\ ~cli.args.no_gitignore_check

\* the invocation ended on its own: the command line was parsed, no interrupt
Ended == Exited /\ Parsed /\ ~cli.interrupted

---------------------------------------------------------------------------
(* Claims about the editor-settings prompt (SpecCli) *)

\* C28: an invocation of build that ends with exit code 0, in a project whose
\* .gitignore has the entry and that has no .vscode/settings.json, with a user who
\* answers never (e), leaves the decision in .dot/config.yml (vscode: disabled) and
\* creates no settings file.
C28_NeverIsPersisted ==
    (Ended /\ cli.argv = <<"build">> /\ cli.exit = 0 /\ cli.gitignore = "with_entry"
     /\ cli.prompts = 0 /\ cli.editor_answer = "e")
        => (cli.config_yml = "vscode_disabled" /\ ~cli.settings_json)

---------------------------------------------------------------------------
(* Claims about the .gitignore check and the command (SpecCli) *)

\* the same command line with the check bypassed
Bypassed(argv) == <<"--no-gitignore-check">> \o argv

\* the repository as the invocation found it
RepoBefore ==
    [worktrees |-> {}, dirs |-> Stray, parents |-> Stray, adds |-> [c \in Commits |-> 0]]

\* what the bypassed command line builds on the repository as it was
BypassedBuilt ==
    LET a == parse_args(Bypassed(cli.argv))
    IN  DbtCommandAt(a.args.dbt_command, vars_yml, ContextOf(a.args.context),
                     a.passthrough_args, GitrefOf(a.args.context), RepoBefore)

\* C29: an invocation the check lets through (the entry is there, or was
\* accepted) parses, builds, runs and exits as the same command line with
\* --no-gitignore-check does: same arguments, same command and worktree, same
\* error, and an exit code given by the project, the build, --dry-run and the tool
\* alone. With the flag there is no prompt, .gitignore is as it was, and the
\* invocation is not stopped before the project check, even without .gitignore.
C29_HygieneHasNoEffect ==
    /\ (Checked /\ cli.gitignore = "with_entry" /\ cli.pc \notin {"parse", "gitignore"}) =>
          LET b == BypassedBuilt
              failed == b.built.status = "error"
          IN  /\ parse_args(Bypassed(cli.argv)).args
                    = [cli.args EXCEPT !.no_gitignore_check = TRUE]
              /\ parse_args(Bypassed(cli.argv)).passthrough_args = cli.passthrough_args
              /\ cli.requested # <<>> =>
                    /\ cli.dbt_command = b.built.command
                    /\ cli.error = (IF failed THEN b.built.err.kind ELSE "")
                    /\ repo = b.repo
                    /\ cli.spawned \in {<<>>, <<b.built.command>>}
              /\ Ended =>
                    cli.exit = (IF ~cli.dbt_project_yml \/ failed THEN 1
                                ELSE IF cli.args.dry_run THEN 0 ELSE cli.returncode)
    /\ (Parsed /\ cli.args.no_gitignore_check) =>
          /\ cli.prompts = 0
          /\ cli.gitignore = cli.gitignore_before
          /\ (Ended /\ cli.dbt_project_yml) => cli.requested # <<>>

C29_Witness ==
    /\ Ended
    /\ cli.argv = <<"build", "dev", "--", "--full-refresh", "--", "-v">>
    /\ cli.gitignore_before = "without_entry" /\ cli.gitignore = "with_entry"
    /\ cli.prompts = 1
    /\ cli.spawned = <<(<<"dbt", "build", "--target", "dev", "--full-refresh", "--", "-v">>)>>
    /\ cli.exit = 0

---------------------------------------------------------------------------
(* Claims about the reserved names (SpecDot) *)

\* C30: default is no environment: with a default key in the configuration,
\* requesting the name default fails with the not-found error naming it, as an
\* undefined name does, and no command is built.
C30_DefaultIsNoEnvironment ==
    (Done /\ vars_yml.exists /\ "default" \in DOMAIN Config
     /\ call.active_context = PyStr("default")) =>
        /\ out.status = "error"
        /\ out.err.kind = "not_found"
        /\ out.err.name = "default"
        /\ out.command = <<>>

====
